---- MODULE Spec2Model ----
(***************************************************************************)
(* Model of tc-heating (src/main.py): the configuration loader, the        *)
(* dispatcher `main` and the per-thermostat polling supervisor             *)
(* `poll_thermostat`.  The BLE scanner and the eq3btsmart client are       *)
(* external: every call to them returns or raises, nondeterministically.   *)
(***************************************************************************)
EXTENDS Integers, Sequences, FiniteSets, TLC

\* Number of loop iterations each supervisor is followed for.
MaxCycles == 2

None == "None"

(***************************************************************************)
(* Strings that the code inspects are sequences of one-character strings.  *)
(***************************************************************************)
UpperChar(c) ==
    CASE c = "x" -> "X"
      [] c = "a" -> "A"
      [] c = "b" -> "B"
      [] OTHER -> c

\* str.upper()
UpperIdentity(s) == s
Upper(s) == [k \in 1..Len(s) |-> UpperChar(s[k])]

\* str.endswith(suffix)
EndsWith(s, suffix) ==
    /\ Len(s) >= Len(suffix)
    /\ SubSeq(s, Len(s) - Len(suffix) + 1, Len(s)) = suffix

DummySuffix == <<"X", "X", ":", "X", "X", ":", "X", "X">>

\* dict.get(key, default) on a record standing for a JSON object
Get(obj, key, default) == IF key \in DOMAIN obj THEN obj[key] ELSE default

RECURSIVE RoomsByIdFirstWins(_)
RoomsByIdFirstWins(rooms) ==
    IF rooms = << >> THEN << >>
    ELSE LET front == RoomsByIdFirstWins(SubSeq(rooms, 1, Len(rooms) - 1))
             room == rooms[Len(rooms)]
         IN  [k \in (DOMAIN front) \cup {room.id} |->
                 IF k \in DOMAIN front THEN front[k] ELSE room.name]

\* {room["id"]: room["name"] for room in rooms}: the last duplicate wins
RECURSIVE RoomsById(_)
RoomsById(rooms) ==
    IF rooms = << >> THEN << >>
    ELSE LET front == RoomsById(SubSeq(rooms, 1, Len(rooms) - 1))
             room == rooms[Len(rooms)]
         IN  [k \in (DOMAIN front) \cup {room.id} |->
                 IF k = room.id THEN room.name ELSE front[k]]

ThermostatConfig(entry, rooms_by_id) ==
    LET address == Get(entry, "address", << >>)
        is_dummy == EndsWith(Upper(address), DummySuffix)
    IN  [id        |-> Get(entry, "id", ""),
         room_name |-> Get(rooms_by_id, Get(entry, "roomId", ""), "Unbekannt"),
         label     |-> Get(entry, "label", Get(entry, "id", "")),
         address   |-> address,
         is_dummy  |-> is_dummy]

load_thermostats(file) ==
    LET rooms_by_id == RoomsById(Get(file, "rooms", << >>))
        entries == Get(file, "thermostats", << >>)
    IN  [k \in 1..Len(entries) |-> ThermostatConfig(entries[k], rooms_by_id)]

(***************************************************************************)
(* The data.json files the model is run on.                                *)
(***************************************************************************)
AddrReal  == <<"0", "0", ":", "1", "A", ":", "2", "2", ":", "A", "B", ":", "C", "D", ":", "E", "F">>
AddrReal2 == <<"0", "0", ":", "1", "A", ":", "2", "2", ":", "x", "x", ":", "X", "X", ":", "0", "1">>
AddrDummy == <<"1", "2", ":", "3", "4", ":", "5", "6", ":", "X", "X", ":", "X", "X", ":", "X", "X">>
AddrDummyLower == <<"1", "2", ":", "3", "4", ":", "5", "6", ":", "x", "x", ":", "x", "X", ":", "x", "x">>

Rooms == << [id |-> "r1", name |-> "Bad"], [id |-> "r2", name |-> "Flur"],
            [id |-> "r1", name |-> "Wohnzimmer"] >>

EntryReal  == [id |-> "t1", roomId |-> "r1", label |-> "Heizung", address |-> AddrReal]
EntryReal2 == [id |-> "t2", roomId |-> "r9", address |-> AddrReal2]
EntryDummy == [id |-> "t3", roomId |-> "r2", label |-> "Platzhalter", address |-> AddrDummy]
EntryDummyLower == [id |-> "t4", address |-> AddrDummyLower]

DataFiles ==
    { [rooms |-> Rooms, thermostats |-> << >>],
      [rooms |-> Rooms],
      [rooms |-> Rooms, thermostats |-> <<EntryDummy>>],
      [rooms |-> Rooms, thermostats |-> <<EntryReal>>],
      [thermostats |-> <<EntryReal2, EntryDummyLower>>],
      [rooms |-> Rooms, thermostats |-> <<EntryDummy, EntryReal>>],
      [rooms |-> Rooms, thermostats |-> <<EntryReal, EntryReal2>>] }

(***************************************************************************)
(* The data.json files the loader alone is run on: every address over a    *)
(* small alphabet, and every file of a few rooms and entries with their    *)
(* optional keys present or absent.                                        *)
(***************************************************************************)
MaxAddrLen == 9
MaxRooms == 2
MaxEntries == 2

SeqsUpTo(S, n) == UNION {[1..k -> S] : k \in 0..n}

AddrChars == {"X", "x", ":"}

AddressFiles ==
    {[thermostats |-> <<[id |-> "t1", address |-> a]>>] : a \in SeqsUpTo(AddrChars, MaxAddrLen)}
        \cup {[thermostats |-> <<[id |-> "t1"]>>]}

RoomChoices == [id : {"r1", "r2"}, name : {"Bad", "Flur"}]

EntryChoices ==
    {a @@ b @@ c @@ [address |-> AddrReal] :
        a \in {<< >>, [id |-> "t1"]},
        b \in {<< >>, [roomId |-> "r1"], [roomId |-> "r9"]},
        c \in {<< >>, [label |-> "Heizung"]}}

StructuredFiles ==
    {[rooms |-> r, thermostats |-> t] :
        r \in SeqsUpTo(RoomChoices, MaxRooms), t \in SeqsUpTo(EntryChoices, MaxEntries)}
        \cup {[thermostats |-> t] : t \in SeqsUpTo(EntryChoices, MaxEntries)}

LoadFiles == AddressFiles \cup StructuredFiles

(***************************************************************************)
(* Outcomes of the external calls.                                         *)
(***************************************************************************)
Eq3Errors == {"Eq3ConnectionException", "Eq3TimeoutException",
              "Eq3CommandException", "Eq3StateException"}

\* any exception class other than the four above that derives from Exception
OtherErrors == {"BleakError"}

\* BleakScanner.find_device_by_address: a device, None (not found or the
\* timeout ran out), or an exception
ScanOutcomes == {"found", "none"} \cup OtherErrors

CallOutcomes == {"ok"} \cup Eq3Errors \cup OtherErrors

DisconnectOutcomes == {"ok", "EOFError"} \cup Eq3Errors \cup OtherErrors

\* How a device behaves over the whole run: "any" leaves every call free,
\* "healthy" makes every call succeed, "failing" makes the status query fail
\* in every cycle, "absent" makes the scan fail in every cycle.
Behaviours == {"any", "healthy", "failing", "absent"}

\* The behaviours that leave calls free over several cycles.  Supervisors share
\* no variable, so a run follows at most one such device next to constrained ones.
Unconstrained == {"any", "failing"}

ScanOutcomesOf(b) ==
    CASE b = "healthy" -> {"found"}
      [] b = "absent"  -> ScanOutcomes \ {"found"}
      [] OTHER         -> ScanOutcomes

ConnectOutcomesOf(b) ==
    CASE b = "healthy" -> {"ok"}
      [] OTHER         -> CallOutcomes

QueryOutcomesOf(b) ==
    CASE b = "healthy" -> {"ok"}
      [] b = "failing" -> CallOutcomes \ {"ok"}
      [] OTHER         -> CallOutcomes

DisconnectOutcomesOf(b) ==
    CASE b = "healthy" -> {"ok"}
      [] OTHER         -> DisconnectOutcomes


\* Positions of a task that no longer runs its loop.
Ended == {"terminated", "cancelled"}

\* isinstance(exc, Exception)
IsException(exc) == exc \in Eq3Errors \cup OtherErrors \cup {"EOFError"}

\* The except clauses of the polling try block, in source order.
ExceptClauseKnownOnly(exc) == IF exc \in Eq3Errors THEN "known" ELSE "uncaught"
ExceptClause(exc) ==
    IF exc \in Eq3Errors THEN "known"
    ELSE IF IsException(exc) THEN "unexpected"
    ELSE "uncaught"

\* The except clauses around the disconnect, in source order.
CleanupClauseEofOnly(exc) == IF exc = "EOFError" THEN "eof" ELSE "uncaught"
CleanupClauseNoEof(exc) == IF IsException(exc) THEN "unexpected" ELSE "uncaught"
CleanupClause(exc) ==
    IF exc = "EOFError" THEN "eof"
    ELSE IF IsException(exc) THEN "unexpected"
    ELSE "uncaught"

(***************************************************************************)
(* State.                                                                  *)
(***************************************************************************)
VARIABLES
    data,        \* contents of data.json
    behav,       \* behaviour of the device of each thermostat entry
    mainPc,      \* position of main: "load", "check", "gather", "returned", "raised"
    configs,     \* main's list of ThermostatConfig
    tasks,       \* tasks[k] is the config task k runs poll_thermostat on
    mainErrors,  \* error lines logged by main
    pc,          \* position of each task
    device,      \* poll_thermostat's local `device`
    thermostat,  \* poll_thermostat's local `thermostat`
    connected,   \* thermostat.is_connected of the current client
    pending,     \* exception in flight through the finally block
    iters,       \* loop iterations started
    sleeps,      \* asyncio.sleep calls started
    steps,       \* what the current iteration did, in order
    failed,      \* external calls that raised in the current iteration
    prevFailed,  \* external calls that raised in the previous iteration
    discRaised,  \* whether async_disconnect raised EOFError or another
                 \* exception in the current iteration
    lines,       \* log lines of the current iteration, in order
    logs,        \* log lines of the task so far, per level
    opsEver      \* external operations the task has invoked so far

mainVars == <<mainPc, configs, tasks, mainErrors>>
taskVars == <<pc, device, thermostat, connected, pending, iters, sleeps, steps,
              failed, prevFailed, discRaised, lines, logs, opsEver>>
vars == <<data, behav, mainVars, taskVars>>

Tasks == DOMAIN tasks

NoLogs == [info |-> 0, warning |-> 0, error |-> 0]

Init ==
    /\ data \in DataFiles
    /\ behav \in [1..Len(Get(data, "thermostats", << >>)) -> Behaviours]
    /\ Cardinality({k \in DOMAIN behav : behav[k] \in Unconstrained}) <= 1
    /\ mainPc = "load"
    /\ configs = << >>
    /\ tasks = << >>
    /\ mainErrors = 0
    /\ pc = << >>
    /\ device = << >>
    /\ thermostat = << >>
    /\ connected = << >>
    /\ pending = << >>
    /\ iters = << >>
    /\ sleeps = << >>
    /\ steps = << >>
    /\ failed = << >>
    /\ prevFailed = << >>
    /\ discRaised = << >>
    /\ lines = << >>
    /\ logs = << >>
    /\ opsEver = << >>

(***************************************************************************)
(* main                                                                    *)
(***************************************************************************)
\* configs = load_thermostats()
MainLoad ==
    /\ mainPc = "load"
    /\ configs' = load_thermostats(data)
    /\ mainPc' = "check"
    /\ UNCHANGED <<data, behav, tasks, mainErrors, taskVars>>

MainEmptySilent ==
    /\ mainPc = "check"
    /\ configs = << >>
    /\ mainPc' = "returned"
    /\ UNCHANGED <<data, behav, configs, tasks, mainErrors, taskVars>>

\* if not configs: logging.error(...); return
MainEmpty ==
    /\ mainPc = "check"
    /\ configs = << >>
    /\ mainErrors' = mainErrors + 1
    /\ mainPc' = "returned"
    /\ UNCHANGED <<data, behav, configs, tasks, taskVars>>

\* [asyncio.create_task(poll_thermostat(cfg)) for cfg in configs]
CreateTasksSkipFirst(cfgs) == [k \in 1..(Len(cfgs) - 1) |-> cfgs[k + 1]]
CreateTasks(cfgs) == [k \in 1..Len(cfgs) |-> cfgs[k]]

\* tasks = [...]; await asyncio.gather(*tasks)
MainSpawn ==
    /\ mainPc = "check"
    /\ configs # << >>
    /\ tasks' = CreateTasks(configs)
    /\ mainPc' = "gather"
    /\ pc' = [k \in DOMAIN tasks' |-> "entry"]
    /\ device' = [k \in DOMAIN tasks' |-> None]
    /\ thermostat' = [k \in DOMAIN tasks' |-> None]
    /\ connected' = [k \in DOMAIN tasks' |-> FALSE]
    /\ pending' = [k \in DOMAIN tasks' |-> None]
    /\ iters' = [k \in DOMAIN tasks' |-> 0]
    /\ sleeps' = [k \in DOMAIN tasks' |-> 0]
    /\ steps' = [k \in DOMAIN tasks' |-> << >>]
    /\ failed' = [k \in DOMAIN tasks' |-> {}]
    /\ prevFailed' = [k \in DOMAIN tasks' |-> {}]
    /\ discRaised' = [k \in DOMAIN tasks' |-> None]
    /\ lines' = [k \in DOMAIN tasks' |-> << >>]
    /\ logs' = [k \in DOMAIN tasks' |-> NoLogs]
    /\ opsEver' = [k \in DOMAIN tasks' |-> {}]
    /\ UNCHANGED <<data, behav, configs, mainErrors>>


(***************************************************************************)
(* poll_thermostat                                                         *)
(***************************************************************************)
UpdShared(f, i, v) == [k \in DOMAIN f |-> v]
\* Each task has its own locals: an assignment in task i changes task i's only.
Upd(f, i, v) == [f EXCEPT ![i] = v]

\* logging.exception writes at error level, with the traceback
LevelOf(line) == IF line = "exception" THEN "error" ELSE line

Logged(i, level) == Upd(logs, i, [logs[i] EXCEPT ![level] = @ + 1])

\* if config.is_dummy: the heartbeat loop, else the polling loop
RouteAlwaysActive(cfg) == "loop"
Route(cfg) == IF cfg.is_dummy THEN "dummy_log" ELSE "loop"

\* if config.is_dummy: ... / device = None
TaskStart(i) ==
    /\ pc[i] = "entry"
    /\ pc' = Upd(pc, i, Route(tasks[i]))
    /\ IF Route(tasks[i]) = "loop"
         THEN device' = Upd(device, i, None)
         ELSE UNCHANGED device
    /\ UNCHANGED <<data, behav, mainVars, thermostat, connected, pending, iters,
                   sleeps, steps, failed, prevFailed, discRaised, lines, logs, opsEver>>

HeartbeatLogsOnce(i) ==
    /\ pc[i] = "dummy_log"
    /\ iters[i] < MaxCycles
    /\ iters' = Upd(iters, i, iters[i] + 1)
    /\ lines' = Upd(lines, i, IF iters[i] = 0 THEN <<"info">> ELSE << >>)
    /\ logs' = IF iters[i] = 0 THEN Logged(i, "info") ELSE logs
    /\ steps' = Upd(steps, i, <<"log", "sleep">>)
    /\ sleeps' = Upd(sleeps, i, sleeps[i] + 1)
    /\ pc' = Upd(pc, i, "dummy_sleep")
    /\ UNCHANGED <<data, behav, mainVars, device, thermostat, connected, pending,
                   failed, prevFailed, discRaised, opsEver>>

\* the dummy loop: logging.info(...); await asyncio.sleep(...)
Heartbeat(i) ==
    /\ pc[i] = "dummy_log"
    /\ iters[i] < MaxCycles
    /\ iters' = Upd(iters, i, iters[i] + 1)
    /\ lines' = Upd(lines, i, <<"info">>)
    /\ logs' = Logged(i, "info")
    /\ steps' = Upd(steps, i, <<"log", "sleep">>)
    /\ sleeps' = Upd(sleeps, i, sleeps[i] + 1)
    /\ pc' = Upd(pc, i, "dummy_sleep")
    /\ UNCHANGED <<data, behav, mainVars, device, thermostat, connected, pending,
                   failed, prevFailed, discRaised, opsEver>>

\* asyncio.sleep returns in the dummy loop
DummyWake(i) ==
    /\ pc[i] = "dummy_sleep"
    /\ pc' = Upd(pc, i, "dummy_log")
    /\ UNCHANGED <<data, behav, mainVars, device, thermostat, connected, pending,
                   iters, sleeps, steps, failed, prevFailed, discRaised, lines, logs, opsEver>>

\* if device is None: resolve first, else go on with the cached handle
AfterTopAlwaysResolve(dev) == "resolve"
AfterTopNeverResolve(dev) == "connect"
AfterTop(dev) == IF dev = None THEN "resolve" ELSE "connect"

\* while True: thermostat = None; try: if device is None: ...
LoopTop(i) ==
    /\ pc[i] = "loop"
    /\ iters[i] < MaxCycles
    /\ iters' = Upd(iters, i, iters[i] + 1)
    /\ thermostat' = Upd(thermostat, i, None)
    /\ connected' = Upd(connected, i, FALSE)
    /\ steps' = Upd(steps, i, << >>)
    /\ lines' = Upd(lines, i, << >>)
    /\ prevFailed' = Upd(prevFailed, i, failed[i])
    /\ discRaised' = Upd(discRaised, i, None)
    /\ failed' = Upd(failed, i, {})
    /\ pc' = Upd(pc, i, AfterTop(device[i]))
    /\ UNCHANGED <<data, behav, mainVars, device, pending, sleeps, logs, opsEver>>

\* `device` after an except clause ran: both clauses clear it
HandlerDeviceKept(clause, dev) == IF clause = "known" THEN None ELSE dev
HandlerDeviceNeverCleared(clause, dev) == dev
HandlerDevice(clause, dev) == IF clause = "uncaught" THEN dev ELSE None

\* The line an except clause logs: logging.error / logging.exception
HandlerLinesKnownOnly(clause) == IF clause = "known" THEN <<"error">> ELSE << >>
HandlerLines(clause) ==
    IF clause = "known" THEN <<"error">>
    ELSE IF clause = "unexpected" THEN <<"exception">>
    ELSE << >>

\* An exception `exc` raised by external call `op` inside the try block
\* reaches the except clauses; control then enters the finally block.
Except(i, exc, op) ==
    LET clause == ExceptClause(exc)
    IN  /\ failed' = Upd(failed, i, failed[i] \cup {op})
        /\ pending' = Upd(pending, i, IF clause = "uncaught" THEN exc ELSE pending[i])
        /\ lines' = Upd(lines, i, lines[i] \o HandlerLines(clause))
        /\ logs' = IF HandlerLines(clause) = << >> THEN logs
                   ELSE Logged(i, LevelOf(HandlerLines(clause)[1]))
        /\ device' = Upd(device, i, HandlerDevice(clause, device[i]))
        /\ pc' = Upd(pc, i, "cleanup")

\* resolve_ble_device: None from the scanner becomes Eq3ConnectionException
ResolveResultNoCheck(o) == IF o = "none" THEN "found" ELSE o
ResolveResult(o) == IF o = "none" THEN "Eq3ConnectionException" ELSE o

\* device = await resolve_ble_device(config)
Resolve(i) ==
    /\ pc[i] = "resolve"
    /\ steps' = Upd(steps, i, Append(steps[i], "resolve"))
    /\ opsEver' = Upd(opsEver, i, opsEver[i] \cup {"resolve"})
    /\ \E o \in ScanOutcomesOf(behav[i]) :
         IF ResolveResult(o) = "found"
           THEN /\ device' = Upd(device, i, "BLEDevice")
                /\ pc' = Upd(pc, i, "connect")
                /\ UNCHANGED <<failed, pending, lines, logs>>
           ELSE Except(i, ResolveResult(o), "resolve")
    /\ UNCHANGED <<data, behav, mainVars, thermostat, connected, iters, sleeps,
                   prevFailed, discRaised>>

\* thermostat = Thermostat(device); await thermostat.async_connect()
Connect(i) ==
    /\ pc[i] = "connect"
    /\ thermostat' = Upd(thermostat, i, "Thermostat")
    /\ steps' = Upd(steps, i, Append(steps[i], "connect"))
    /\ opsEver' = Upd(opsEver, i, opsEver[i] \cup {"connect"})
    /\ \E o \in ConnectOutcomesOf(behav[i]), link \in BOOLEAN :
         IF o = "ok"
           THEN /\ link
                /\ connected' = Upd(connected, i, TRUE)
                /\ pc' = Upd(pc, i, "query")
                /\ UNCHANGED <<device, failed, pending, lines, logs>>
           ELSE /\ connected' = Upd(connected, i, link)
                /\ Except(i, o, "connect")
    /\ UNCHANGED <<data, behav, mainVars, iters, sleeps, prevFailed, discRaised>>

\* status = await thermostat.async_get_status(); logging.info(...)
Query(i) ==
    /\ pc[i] = "query"
    /\ opsEver' = Upd(opsEver, i, opsEver[i] \cup {"query"})
    /\ \E o \in QueryOutcomesOf(behav[i]), link \in BOOLEAN :
         IF o = "ok"
           THEN /\ link
                /\ steps' = Upd(steps, i, steps[i] \o <<"query", "log">>)
                /\ lines' = Upd(lines, i, Append(lines[i], "info"))
                /\ logs' = Logged(i, "info")
                /\ pc' = Upd(pc, i, "cleanup")
                /\ UNCHANGED <<device, connected, failed, pending>>
           ELSE /\ steps' = Upd(steps, i, Append(steps[i], "query"))
                /\ connected' = Upd(connected, i, link)
                /\ Except(i, o, "query")
    /\ UNCHANGED <<data, behav, mainVars, thermostat, iters, sleeps, prevFailed, discRaised>>

\* if thermostat and thermostat.is_connected
NeedsDisconnectInverted(i) == thermostat[i] # None /\ ~connected[i]
NeedsDisconnectIfClient(i) == thermostat[i] # None
NeedsDisconnect(i) == thermostat[i] # None /\ connected[i]

\* What leaves the finally block when the disconnect raised `exc` (None when
\* it returned or was not attempted): an exception the inner except clauses
\* did not catch, else the one that was in flight, else nothing.
Leaves(i, exc) ==
    IF exc # None /\ CleanupClause(exc) = "uncaught" THEN exc ELSE pending[i]

AfterFinallyRetriesAtOnce(i, exc, done) ==
    IF Leaves(i, exc) # None
      THEN /\ pc' = [k \in DOMAIN pc |-> IF k = i THEN "terminated" ELSE "cancelled"]
           /\ pending' = Upd(pending, i, Leaves(i, exc))
           /\ mainPc' = "raised"
           /\ steps' = Upd(steps, i, steps[i] \o done)
           /\ UNCHANGED sleeps
      ELSE IF failed[i] # {}
      THEN /\ pc' = Upd(pc, i, "loop")
           /\ steps' = Upd(steps, i, steps[i] \o done)
           /\ UNCHANGED <<sleeps, pending, mainPc>>
      ELSE /\ pc' = Upd(pc, i, "sleep")
           /\ sleeps' = Upd(sleeps, i, sleeps[i] + 1)
           /\ steps' = Upd(steps, i, steps[i] \o done \o <<"sleep">>)
           /\ UNCHANGED <<pending, mainPc>>

\* The end of the finally block: an exception in flight ends the task, gather
\* hands it to main and asyncio.run cancels the tasks still running; otherwise
\* await asyncio.sleep(...) starts.
AfterFinally(i, exc, done) ==
    IF Leaves(i, exc) # None
      THEN /\ pc' = [k \in DOMAIN pc |-> IF k = i THEN "terminated" ELSE "cancelled"]
           /\ pending' = Upd(pending, i, Leaves(i, exc))
           /\ mainPc' = "raised"
           /\ steps' = Upd(steps, i, steps[i] \o done)
           /\ UNCHANGED sleeps
      ELSE /\ pc' = Upd(pc, i, "sleep")
           /\ sleeps' = Upd(sleeps, i, sleeps[i] + 1)
           /\ steps' = Upd(steps, i, steps[i] \o done \o <<"sleep">>)
           /\ UNCHANGED <<pending, mainPc>>

\* finally: try: ... await thermostat.async_disconnect() except ...
Cleanup(i) ==
    /\ pc[i] = "cleanup"
    /\ IF NeedsDisconnect(i)
         THEN /\ opsEver' = Upd(opsEver, i, opsEver[i] \cup {"disconnect"})
              /\ \E o \in DisconnectOutcomesOf(behav[i]), link \in BOOLEAN :
                   IF o = "ok"
                     THEN /\ ~link
                          /\ connected' = Upd(connected, i, FALSE)
                          /\ UNCHANGED <<failed, discRaised, lines, logs>>
                          /\ AfterFinally(i, None, <<"disconnect", "cleanup">>)
                     ELSE /\ connected' = Upd(connected, i, link)
                          /\ failed' = Upd(failed, i, failed[i] \cup {"disconnect"})
                          /\ discRaised' = Upd(discRaised, i,
                                 IF o = "EOFError" THEN "EOFError" ELSE "Exception")
                          /\ IF CleanupClause(o) = "eof"
                               THEN /\ lines' = Upd(lines, i, Append(lines[i], "warning"))
                                    /\ logs' = Logged(i, "warning")
                               ELSE IF CleanupClause(o) = "unexpected"
                               THEN /\ lines' = Upd(lines, i, Append(lines[i], "exception"))
                                    /\ logs' = Logged(i, "error")
                               ELSE UNCHANGED <<lines, logs>>
                          /\ AfterFinally(i, o, <<"disconnect", "cleanup">>)
         ELSE /\ AfterFinally(i, None, <<"cleanup">>)
              /\ UNCHANGED <<opsEver, connected, failed, discRaised, lines, logs>>
    /\ UNCHANGED <<data, behav, configs, tasks, mainErrors, device, thermostat,
                   iters, prevFailed>>

\* asyncio.sleep returns: back to the top of the loop
Wake(i) ==
    /\ pc[i] = "sleep"
    /\ pc' = Upd(pc, i, "loop")
    /\ UNCHANGED <<data, behav, mainVars, device, thermostat, connected, pending,
                   iters, sleeps, steps, failed, prevFailed, discRaised, lines, logs, opsEver>>

Next ==
    \/ MainLoad
    \/ MainEmpty
    \/ MainSpawn
    \/ \E i \in Tasks : TaskStart(i)
    \/ \E i \in Tasks : Heartbeat(i)
    \/ \E i \in Tasks : DummyWake(i)
    \/ \E i \in Tasks : LoopTop(i)
    \/ \E i \in Tasks : Resolve(i)
    \/ \E i \in Tasks : Connect(i)
    \/ \E i \in Tasks : Query(i)
    \/ \E i \in Tasks : Cleanup(i)
    \/ \E i \in Tasks : Wake(i)

Spec == Init /\ [][Next]_vars

\* The positions a task can have in main's task list.
TaskIds == {1, 2}

\* One step of main.
MainStep == MainLoad \/ MainEmpty \/ MainSpawn

\* One step of task i.
Step(i) ==
    /\ i \in Tasks
    /\ \/ TaskStart(i) \/ Heartbeat(i) \/ DummyWake(i) \/ LoopTop(i) \/ Resolve(i)
       \/ Connect(i) \/ Query(i) \/ Cleanup(i) \/ Wake(i)

\* The event loop runs main and every task that is ready, every external call
\* returns or raises, and every sleep ends.
Fairness == WF_vars(MainStep) /\ \A i \in TaskIds : WF_vars(Step(i))

\* Runs with no thermostat, and with a dummy thermostat next to a real one of
\* any behaviour.
FairInit ==
    /\ Init
    /\ data \in {[rooms |-> Rooms, thermostats |-> << >>],
                 [rooms |-> Rooms, thermostats |-> <<EntryDummy, EntryReal>>]}
    /\ \A k \in DOMAIN behav :
          load_thermostats(data)[k].is_dummy => behav[k] = "healthy"

FairSpec == FairInit /\ [][Next]_vars /\ Fairness

\* The loader alone, on every file of LoadFiles.
LoadInit ==
    /\ data \in LoadFiles
    /\ behav = [k \in 1..Len(Get(data, "thermostats", << >>)) |-> "healthy"]
    /\ mainPc = "load"
    /\ configs = << >>
    /\ tasks = << >>
    /\ mainErrors = 0
    /\ pc = << >>
    /\ device = << >>
    /\ thermostat = << >>
    /\ connected = << >>
    /\ pending = << >>
    /\ iters = << >>
    /\ sleeps = << >>
    /\ steps = << >>
    /\ failed = << >>
    /\ prevFailed = << >>
    /\ discRaised = << >>
    /\ lines = << >>
    /\ logs = << >>
    /\ opsEver = << >>

LoadNext == MainLoad

LoadSpec == LoadInit /\ [][LoadNext]_vars


(***************************************************************************)
(* Properties.                                                             *)
(***************************************************************************)
Active(i) == ~tasks[i].is_dummy

\* The external calls of the polling try block.
MainOps == {"resolve", "connect", "query"}

\* Task i is inside a loop iteration (from the top of the loop to the end of
\* its sleep).
InIteration(i) == pc[i] \in {"resolve", "connect", "query", "cleanup", "sleep"}

\* Task i is between the top of the loop and the start of its sleep.
Polling(i) == pc[i] \in {"resolve", "connect", "query", "cleanup"}

\* The current iteration of task i has invoked, or is about to invoke, device
\* resolution.
Resolves(i) == pc[i] = "resolve" \/ (steps[i] # << >> /\ steps[i][1] = "resolve")

\* C1: whatever the outcomes of resolution, connect, query and disconnect
\* (success, one of the four Eq3 errors, or another error), no supervisor's
\* loop ends: no task is ever terminated by an exception or cancelled because
\* another task was.
C1_NoSupervisorEnds == \A i \in Tasks : pc[i] \notin Ended

\* An active supervisor has finished its cycles with a failed query and a
\* failed disconnect in the last one and a failure in the one before, next to
\* another supervisor that finished its cycles too.
C1_Witness ==
    \E i, j \in Tasks :
        /\ i # j /\ Active(i)
        /\ pc[i] = "sleep" /\ iters[i] >= 2
        /\ failed[i] = {"query", "disconnect"} /\ prevFailed[i] # {}
        /\ "exception" \in {lines[i][k] : k \in DOMAIN lines[i]}
        /\ pc[j] \in {"sleep", "dummy_sleep"} /\ iters[j] >= 2

\* C2: when resolution, connect or query failed in a cycle of an active
\* supervisor, the cached handle is empty when that cycle ends (at its sleep),
\* and the next cycle starts with device resolution, before any connect.
C2_FailedCycleInvalidatesHandle ==
    \A i \in Tasks :
        /\ (pc[i] \in {"sleep", "loop"} /\ failed[i] \cap MainOps # {})
              => device[i] = None
        /\ (InIteration(i) /\ prevFailed[i] \cap MainOps # {}) => Resolves(i)

\* A cycle that follows a failed connect or query has resolved the device anew
\* and is about to connect.
C2_Witness ==
    \E i \in Tasks :
        /\ pc[i] = "connect" /\ steps[i] = <<"resolve">>
        /\ prevFailed[i] \cap {"connect", "query"} # {}

\* C3 as stated: after a cycle in which any call failed, the disconnect of the
\* cleanup included, the next cycle performs device resolution.
C3_AnyFailureForcesResolution ==
    \A i \in Tasks : (InIteration(i) /\ prevFailed[i] # {}) => Resolves(i)

\* C3 amended: after a cycle in which resolution, connect or query failed the
\* next cycle performs device resolution; after a cycle in which only the
\* disconnect of the cleanup failed the next cycle reuses the cached handle.
C3_MainFailureForcesResolution ==
    \A i \in Tasks :
        /\ (InIteration(i) /\ prevFailed[i] \cap MainOps # {}) => Resolves(i)
        /\ (InIteration(i) /\ prevFailed[i] = {"disconnect"}) => ~Resolves(i)

\* A cycle that follows one in which only the disconnect failed connects with
\* the cached handle, without resolution.
C3_Witness ==
    \E i \in Tasks :
        /\ pc[i] = "query" /\ steps[i] = <<"connect">>
        /\ prevFailed[i] = {"disconnect"}

\* C4 as stated: whenever an active supervisor sleeps, the client it created
\* in that iteration is not connected, and a new iteration holds no client.
C4_ReleasedBeforeSleep ==
    \A i \in Tasks :
        /\ pc[i] = "sleep" => ~(thermostat[i] # None /\ connected[i])
        /\ pc[i] \in {"resolve", "connect"} => thermostat[i] = None

\* C4 amended: whenever an active supervisor sleeps, the client it created in
\* that iteration is still connected only if a disconnect was attempted in
\* that iteration and failed; a new iteration holds no client.
C4_ReleasedUnlessDisconnectFailed ==
    \A i \in Tasks :
        /\ (pc[i] = "sleep" /\ thermostat[i] # None /\ connected[i])
              => "disconnect" \in failed[i]
        /\ pc[i] \in {"resolve", "connect"} => (thermostat[i] = None /\ ~connected[i])

\* A supervisor sleeps after a cycle whose query failed with the link still
\* up and whose disconnect succeeded.
C4_Witness ==
    \E i \in Tasks :
        /\ pc[i] = "sleep" /\ thermostat[i] # None /\ ~connected[i]
        /\ failed[i] = {"query"}
        /\ steps[i] = <<"connect", "query", "disconnect", "cleanup", "sleep">>

\* C5: a failing disconnect never leaves the iteration as an exception and
\* never skips the sleep: a supervisor outside the polling part of an
\* iteration has slept once per iteration it started, one inside it has slept
\* once per earlier iteration, and a failed disconnect is followed by the sleep.
C5_SleepPerIteration ==
    \A i \in Tasks :
        /\ pc[i] # "entry" =>
              sleeps[i] = (IF Polling(i) THEN iters[i] - 1 ELSE iters[i])
        /\ "disconnect" \in failed[i] => pc[i] \in {"sleep", "loop"}

\* The disconnect failed in two iterations, once with EOFError and once with
\* another error, and the supervisor has slept twice and is at the top of the
\* loop again.
C5_Witness ==
    \E i \in Tasks :
        /\ pc[i] = "loop" /\ sleeps[i] = 2 /\ iters[i] = 2
        /\ "disconnect" \in failed[i] /\ "disconnect" \in prevFailed[i]
        /\ logs[i].warning = 1 /\ logs[i].error >= 1

\* C6: a supervisor whose config has is_dummy set never invokes resolution,
\* connect, query or disconnect, holds no handle and no client, and is only
\* ever at its entry or in the heartbeat loop.
C6_DummyNeverTouchesDevice ==
    \A i \in Tasks :
        tasks[i].is_dummy =>
            /\ opsEver[i] = {}
            /\ pc[i] \in {"entry", "dummy_log", "dummy_sleep"}
            /\ device[i] = None /\ thermostat[i] = None

\* A dummy supervisor has run two heartbeat cycles.
C6_Witness ==
    \E i \in Tasks :
        /\ tasks[i].is_dummy /\ pc[i] = "dummy_sleep"
        /\ iters[i] = 2 /\ logs[i].info = 2

\* Some step of task i can be taken.
CanStep(i) ==
    ENABLED (\/ TaskStart(i) \/ LoopTop(i) \/ Resolve(i) \/ Connect(i)
             \/ Query(i) \/ Cleanup(i) \/ Wake(i))

\* C7: with one supervisor whose device fails every cycle next to one whose
\* device always succeeds, the succeeding one has logged one success line per
\* cycle and no error or warning line, the failing one has logged no success
\* line and an error line in every cycle, and the succeeding one can always
\* take its next step, wherever the failing one is.
C7_IndependentCadence ==
    \A i, j \in Tasks :
        (Active(i) /\ Active(j) /\ behav[i] = "healthy" /\ behav[j] = "failing") =>
            /\ logs[i].info = sleeps[i] + (IF pc[i] = "cleanup" THEN 1 ELSE 0)
            /\ logs[i].error = 0 /\ logs[i].warning = 0
            /\ logs[j].info = 0
            /\ logs[j].error >= sleeps[j]
            /\ pc[j] \in {"sleep", "loop"} /\ iters[j] > 0 =>
                  (lines[j] # << >> /\ LevelOf(lines[j][1]) = "error")
            /\ (iters[i] < MaxCycles \/ pc[i] # "loop") => CanStep(i)

\* The failing supervisor has failed twice and the succeeding one has logged
\* two success lines.
C7_Witness ==
    \E i, j \in Tasks :
        /\ Active(i) /\ Active(j) /\ behav[i] = "healthy" /\ behav[j] = "failing"
        /\ sleeps[i] = 2 /\ logs[i].info = 2
        /\ sleeps[j] = 2 /\ logs[j].error >= 2

\* C8: once main has a non-empty config list and has passed the emptiness
\* check, there is exactly one task per config entry, in order, and main
\* awaits them: it has neither returned nor raised.
C8_OneTaskPerConfig ==
    (mainPc \notin {"load", "check"} /\ configs # << >>) =>
        /\ Len(tasks) = Len(configs)
        /\ \A k \in 1..Len(configs) : tasks[k] = configs[k]
        /\ mainPc = "gather"

\* Two supervisors run, one of them after failed cycles, while main awaits them.
C8_Witness ==
    /\ mainPc = "gather" /\ Len(tasks) = 2
    /\ \E i \in Tasks : iters[i] = 2 /\ pc[i] = "sleep" /\ prevFailed[i] # {}
                          /\ failed[i] # {}

\* C9: with an empty config list main logs one error line and returns
\* normally, with no task spawned and no device operation performed.
C9_EmptyConfigReturns ==
    (mainPc # "load" /\ configs = << >>) =>
        /\ mainPc \in {"check", "returned"}
        /\ mainErrors = (IF mainPc = "returned" THEN 1 ELSE 0)
        /\ tasks = << >> /\ pc = << >> /\ opsEver = << >>

\* main has returned on a file without thermostats.
C9_Witness ==
    /\ mainPc = "returned" /\ mainErrors = 1
    /\ Get(data, "thermostats", << >>) = << >>

\* C10: when device resolution fails in every cycle, each cycle logs exactly
\* one error line, no connect, query or disconnect is ever attempted, no
\* handle is ever cached and the supervisor keeps running.
C10_ResolutionAlwaysFails ==
    \A i \in Tasks :
        (Active(i) /\ behav[i] = "absent") =>
            /\ opsEver[i] \subseteq {"resolve"}
            /\ device[i] = None /\ thermostat[i] = None
            /\ pc[i] \notin Ended
            /\ logs[i].error = sleeps[i] + (IF pc[i] = "cleanup" THEN 1 ELSE 0)
            /\ logs[i].info = 0 /\ logs[i].warning = 0
            /\ pc[i] = "sleep" => (Len(lines[i]) = 1 /\ LevelOf(lines[i][1]) = "error")

\* Resolution has failed in two cycles and the supervisor sleeps before the
\* next one.
C10_Witness ==
    \E i \in Tasks :
        /\ Active(i) /\ behav[i] = "absent"
        /\ pc[i] = "sleep" /\ iters[i] = 2
        /\ logs[i].error = 2 /\ opsEver[i] = {"resolve"}

\* C11: when every external call succeeds, a real device next to a dummy one
\* has one success line per finished cycle, the dummy one has one heartbeat
\* line per cycle, and no error or warning line is logged by either or by main.
C11_AllSucceedCadence ==
    \A i, j \in Tasks :
        (Active(i) /\ behav[i] = "healthy" /\ tasks[j].is_dummy) =>
            /\ logs[i] = [info    |-> sleeps[i] + (IF pc[i] = "cleanup" THEN 1 ELSE 0),
                          warning |-> 0, error |-> 0]
            /\ logs[j] = [info |-> iters[j], warning |-> 0, error |-> 0]
            /\ iters[j] = sleeps[j]
            /\ mainErrors = 0

\* Both supervisors have run all their cycles: the real one has logged one
\* success line in each, the dummy one one heartbeat line in each.
C11_Witness ==
    \E i, j \in Tasks :
        /\ Active(i) /\ behav[i] = "healthy" /\ tasks[j].is_dummy
        /\ pc[i] = "sleep" /\ sleeps[i] = MaxCycles /\ logs[i].info = MaxCycles
        /\ pc[j] = "dummy_sleep" /\ sleeps[j] = MaxCycles /\ logs[j].info = MaxCycles

\* The entries of the file and the configs made from them, once loaded.
Entries == Get(data, "thermostats", << >>)
Loaded == mainPc = "check"

\* The address's last three colon-delimited segments are XX, XX and XX in any
\* case: it ends with XX:XX:XX and that suffix starts the address or follows
\* a colon.
FinalSegmentIsPlaceholder(a) ==
    /\ Len(a) >= Len(DummySuffix)
    /\ \A k \in 1..Len(DummySuffix) :
          LET c == a[Len(a) - Len(DummySuffix) + k]
          IN  IF DummySuffix[k] = "X" THEN c \in {"X", "x"} ELSE c = DummySuffix[k]
    /\ (Len(a) = Len(DummySuffix) \/ a[Len(a) - Len(DummySuffix)] = ":")

\* The last eight characters of the address are XX:XX:XX in any case.
EndsWithPlaceholder(a) ==
    /\ Len(a) >= Len(DummySuffix)
    /\ \A k \in 1..Len(DummySuffix) :
          LET c == a[Len(a) - Len(DummySuffix) + k]
          IN  IF DummySuffix[k] = "X" THEN c \in {"X", "x"} ELSE c = DummySuffix[k]

\* C12 as stated: is_dummy is true exactly when the final colon-delimited
\* segments of the address equal XX:XX:XX, ignoring case.
C12_DummyIffFinalSegment ==
    Loaded => \A k \in DOMAIN configs :
        configs[k].is_dummy <=> FinalSegmentIsPlaceholder(configs[k].address)

\* C12 amended: is_dummy is true exactly when the address ends with the eight
\* characters XX:XX:XX, ignoring case, wherever that suffix starts; it is
\* false for the empty address, a missing address and one without a colon.
C12_DummyIffSuffix ==
    Loaded => \A k \in DOMAIN configs :
        /\ configs[k].address = Get(Entries[k], "address", << >>)
        /\ configs[k].is_dummy <=> EndsWithPlaceholder(configs[k].address)

\* A mixed-case placeholder address that follows a colon has been loaded as a
\* dummy.
C12_Witness ==
    /\ Loaded /\ Len(configs) = 1
    /\ configs[1].address = <<":", "x", "X", ":", "X", "x", ":", "x", "x">>
    /\ configs[1].is_dummy

\* The name of the last room of the table with the given id, "Unbekannt" when
\* there is none.
RoomNameOf(rooms, rid) ==
    LET ks == {k \in DOMAIN rooms : rooms[k].id = rid}
    IN  IF ks = {} THEN "Unbekannt"
        ELSE rooms[CHOOSE k \in ks : \A m \in ks : m <= k].name

\* C13: load_thermostats returns one config per thermostat entry, in file
\* order, with room_name the name of the last room with the entry's roomId
\* or "Unbekannt" when there is none or the entry has no roomId, and label the
\* entry's label or, without one, its id.
C13_OneConfigPerEntry ==
    Loaded =>
        /\ Len(configs) = Len(Entries)
        /\ \A k \in DOMAIN configs :
              LET entry == Entries[k]
                  cfg == configs[k]
              IN  /\ cfg.id = (IF "id" \in DOMAIN entry THEN entry.id ELSE "")
                  /\ cfg.room_name =
                        (IF "roomId" \in DOMAIN entry
                           THEN RoomNameOf(Get(data, "rooms", << >>), entry.roomId)
                           ELSE "Unbekannt")
                  /\ cfg.label = (IF "label" \in DOMAIN entry THEN entry.label ELSE cfg.id)

\* Two entries have been loaded from a file whose room table has r1 twice: the
\* first has no label and takes the second r1 name, the second has a label and
\* an unknown room.
C13_Witness ==
    /\ Loaded /\ Len(configs) = 2
    /\ "rooms" \in DOMAIN data /\ Len(data.rooms) = 2
    /\ data.rooms[1] = [id |-> "r1", name |-> "Bad"]
    /\ data.rooms[2] = [id |-> "r1", name |-> "Flur"]
    /\ Entries[1] = [id |-> "t1", roomId |-> "r1", address |-> AddrReal]
    /\ configs[1].room_name = "Flur" /\ configs[1].label = "t1"
    /\ "label" \in DOMAIN Entries[2] /\ configs[2].room_name = "Unbekannt"

\* The place of each step in a poll cycle.
StepRank(s) ==
    CASE s = "resolve" -> 1
      [] s = "connect" -> 2
      [] s = "query" -> 3
      [] s = "log" -> 4
      [] s = "disconnect" -> 5
      [] s = "cleanup" -> 6
      [] s = "sleep" -> 7

\* Step s is among the steps the current iteration of task i has taken.
Took(i, s) == \E k \in DOMAIN steps[i] : steps[i][k] = s

\* C14: within an active supervisor the steps of a cycle are taken in the
\* order resolve, connect, query, success log, cleanup, sleep: connect is
\* attempted only with a handle held, query only after the connect of the
\* same iteration succeeded, the success line is logged only after the query
\* succeeded, and the sleep starts only when the cleanup has finished.
C14_StepsInOrder ==
    \A i \in Tasks :
        Active(i) =>
            /\ \A k, m \in DOMAIN steps[i] :
                  k < m => StepRank(steps[i][k]) < StepRank(steps[i][m])
            /\ pc[i] = "connect" => device[i] # None
            /\ Took(i, "connect") => (thermostat[i] # None /\ "resolve" \notin failed[i])
            /\ (pc[i] = "query" \/ Took(i, "query")) =>
                  (Took(i, "connect") /\ "connect" \notin failed[i])
            /\ pc[i] = "query" => (thermostat[i] # None /\ connected[i] /\ device[i] # None)
            /\ Took(i, "log") =>
                  (Took(i, "query") /\ "query" \notin failed[i] /\ lines[i][1] = "info")
            /\ (lines[i] # << >> /\ lines[i][1] = "info") => Took(i, "log")
            /\ Took(i, "sleep") => (Took(i, "cleanup") /\ pc[i] \in {"sleep", "loop"})
            /\ pc[i] = "sleep" => Took(i, "sleep")

\* A full cycle: resolve, connect, query, success line, disconnect, cleanup
\* and sleep, in this order.
C14_Witness ==
    \E i \in Tasks :
        /\ Active(i) /\ pc[i] = "sleep"
        /\ steps[i] = <<"resolve", "connect", "query", "log", "disconnect", "cleanup", "sleep">>

\* How often the current iteration of task i has taken step s.
TimesTaken(i, s) == Cardinality({k \in DOMAIN steps[i] : steps[i][k] = s})

\* C15: an iteration of an active supervisor runs the cleanup exactly once
\* whatever resolution, connect and query did, and the cleanup attempts a
\* disconnect exactly when the iteration created a client that is still
\* marked connected: at most one disconnect per iteration, none after a
\* failed resolution.
C15_CleanupOncePerIteration ==
    /\ [][\A i \in Tasks :
            Cleanup(i) =>
                (Took(i, "disconnect")' <=> (thermostat[i] # None /\ connected[i]))]_vars
    /\ [](\A i \in Tasks :
            Active(i) =>
                /\ TimesTaken(i, "cleanup") = (IF Took(i, "sleep") THEN 1 ELSE 0)
                /\ pc[i] = "sleep" => Took(i, "sleep")
                /\ TimesTaken(i, "disconnect") <= 1
                /\ Took(i, "disconnect") => (Took(i, "cleanup") /\ Took(i, "connect"))
                /\ "resolve" \in failed[i] => (~Took(i, "disconnect") /\ thermostat[i] = None))

\* A cleanup without a disconnect after a failed resolution, in the iteration
\* after one whose cleanup disconnected.
C15_Witness ==
    \E i \in Tasks :
        /\ Active(i) /\ pc[i] = "sleep" /\ iters[i] = 2
        /\ steps[i] = <<"resolve", "cleanup", "sleep">>
        /\ "resolve" \in failed[i] /\ "disconnect" \in opsEver[i]

\* C16: an active supervisor invokes device resolution in a cycle exactly when
\* it holds no handle at the start of that cycle, that is in its first cycle
\* and after a cycle in which resolution, connect or query failed; a cycle
\* after one in which all three succeeded connects with the cached handle.
C16_ResolveIffNoHandle ==
    \A i \in Tasks :
        Active(i) =>
            /\ InIteration(i) =>
                  (Resolves(i) <=> (iters[i] = 1 \/ prevFailed[i] \cap MainOps # {}))
            /\ pc[i] = "resolve" => device[i] = None
            /\ (pc[i] = "connect" /\ ~Took(i, "resolve")) =>
                  (device[i] # None /\ iters[i] > 1 /\ prevFailed[i] \cap MainOps = {})

\* The second cycle follows a fully successful one and has polled the device
\* without resolving it again.
C16_Witness ==
    \E i \in Tasks :
        /\ Active(i) /\ pc[i] = "sleep" /\ iters[i] = 2 /\ prevFailed[i] = {}
        /\ steps[i] = <<"connect", "query", "log", "disconnect", "cleanup", "sleep">>

\* C17: under fair scheduling, with every external call returning or raising,
\* a supervisor, dummy or active, that has started n cycles starts cycle n + 1
\* (for every n below the number of cycles followed), and whenever a
\* supervisor starts a cycle it has slept exactly once per cycle started
\* before: one sleep lies between two consecutive cycle starts, also after a
\* failed cycle.
C17_CyclesRecurWithOneSleep ==
    /\ \A i \in TaskIds : \A n \in 0..(MaxCycles - 1) :
          (i \in Tasks /\ iters[i] = n) ~> (i \in Tasks /\ iters[i] = n + 1)
    /\ [][\A i \in Tasks :
            iters'[i] # iters[i] =>
                /\ iters'[i] = iters[i] + 1
                /\ sleeps[i] = iters[i] /\ sleeps'[i] \in {iters[i], iters'[i]}
                /\ pc[i] \in {"loop", "dummy_log"}]_vars

\* An active supervisor starts its second cycle after a failed first one and
\* one sleep.
C17_Witness ==
    \E i \in Tasks :
        /\ Active(i) /\ pc[i] = "resolve" /\ iters[i] = 2 /\ sleeps[i] = 1
        /\ prevFailed[i] \cap MainOps # {}

\* C18: every step of one supervisor leaves the cached handle, the client,
\* its connection and the loop position of every other supervisor unchanged.
C18_StepsAreLocal ==
    [][\A i \in Tasks :
          Step(i) =>
              \A j \in Tasks \ {i} :
                  /\ device'[j] = device[j]
                  /\ thermostat'[j] = thermostat[j]
                  /\ connected'[j] = connected[j]
                  /\ pc'[j] = pc[j]]_vars

\* One supervisor has run two failing cycles and holds no handle while the
\* other is still in its first cycle, connected, with its handle.
C18_Witness ==
    \E i, j \in Tasks :
        /\ i # j /\ Active(i) /\ Active(j)
        /\ pc[i] = "sleep" /\ iters[i] = 2 /\ failed[i] # {} /\ device[i] = None
        /\ pc[j] = "query" /\ iters[j] = 1 /\ device[j] # None /\ connected[j]

\* C19: a finished cycle of an active supervisor has logged exactly one line
\* for its resolve/connect/query phase, the success line when all three
\* succeeded and an error line otherwise, followed by one more line exactly
\* when the disconnect of the cleanup was attempted and failed: a warning
\* after EOFError, an error line after any other exception.
C19_LinesPerCycle ==
    \A i \in Tasks :
        Active(i) =>
            /\ Polling(i) => (Len(lines[i]) = (IF pc[i] = "cleanup" THEN 1 ELSE 0))
            /\ (pc[i] \in {"cleanup", "sleep"}) =>
                  /\ Len(lines[i]) >= 1
                  /\ lines[i][1] = "info" <=> failed[i] \cap MainOps = {}
                  /\ LevelOf(lines[i][1]) = "error" <=> failed[i] \cap MainOps # {}
            /\ pc[i] = "sleep" =>
                  /\ Len(lines[i]) = (IF "disconnect" \in failed[i] THEN 2 ELSE 1)
                  /\ "disconnect" \in failed[i] => Took(i, "disconnect")
                  /\ "disconnect" \in failed[i] <=> discRaised[i] # None
                  /\ discRaised[i] = "EOFError" => lines[i][2] = "warning"
                  /\ discRaised[i] = "Exception" => LevelOf(lines[i][2]) = "error"

\* A cycle that logged the success line and then a warning, its disconnect
\* having raised EOFError.
C19_Witness ==
    \E i \in Tasks :
        /\ Active(i) /\ pc[i] = "sleep"
        /\ lines[i] = <<"info", "warning">> /\ discRaised[i] = "EOFError"
        /\ failed[i] = {"disconnect"}

\* C20: whenever an active supervisor sleeps, it holds a cached handle exactly
\* when resolution (if needed), connect and query all succeeded in the cycle
\* just finished, which is exactly when that cycle logged the success line,
\* whether or not the disconnect of the cleanup failed.
C20_HandleIffSuccess ==
    \A i \in Tasks :
        (Active(i) /\ pc[i] = "sleep") =>
            /\ device[i] # None <=> failed[i] \cap MainOps = {}
            /\ device[i] # None <=> (lines[i] # << >> /\ lines[i][1] = "info")
            /\ device[i] # None <=> Took(i, "log")

\* A supervisor sleeps with its handle after a cycle whose disconnect failed.
C20_Witness ==
    \E i \in Tasks :
        /\ Active(i) /\ pc[i] = "sleep" /\ device[i] # None
        /\ failed[i] = {"disconnect"} /\ lines[i][1] = "info"

====
